---- MODULE Spec2Model ----
(***************************************************************************)
(* A model of locast2tuner's Multiplexer (service/multiplexer.rs), of the  *)
(* catalog endpoints of the HTTP surface and of the stream relay           *)
(* (http/mod.rs, get_stream).                                              *)
(*                                                                         *)
(* Strings the code inspects character by character (channel numbers,     *)
(* call signs, station ids) are sequences of one-character strings.        *)
(* f32 values are records [m, e] standing for m / 2^e, with a 24 bit       *)
(* mantissa m, so that parsing, adding and printing round as Rust does.    *)
(***************************************************************************)
EXTENDS Integers, Sequences, FiniteSets, TLC

\* ------------------------------------------------------------------------
\* Strings
\* ------------------------------------------------------------------------

DigitChar == <<"0", "1", "2", "3", "4", "5", "6", "7", "8", "9">>

IsDigit(ch) == \E d \in 1..10 : DigitChar[d] = ch

DigitVal(ch) == (CHOOSE d \in 1..10 : DigitChar[d] = ch) - 1

AllDigits(s) == \A k \in 1..Len(s) : IsDigit(s[k])

RECURSIVE DigitsVal(_)
\* the number a sequence of decimal digits writes (0 for the empty sequence)
DigitsVal(s) ==
    IF s = <<>> THEN 0
    ELSE 10 * DigitsVal(SubSeq(s, 1, Len(s) - 1)) + DigitVal(s[Len(s)])

RECURSIVE NatToStr(_)
\* usize::to_string
NatToStr(n) ==
    IF n < 10 THEN <<DigitChar[n + 1]>>
    ELSE NatToStr(n \div 10) \o <<DigitChar[(n % 10) + 1]>>

RECURSIVE PadDigits(_, _)
\* n written with exactly k digits (leading zeros)
PadDigits(n, k) ==
    IF k = 0 THEN <<>>
    ELSE PadDigits(n \div 10, k - 1) \o <<DigitChar[(n % 10) + 1]>>

IndexOf(s, ch) ==
    IF \E k \in 1..Len(s) : s[k] = ch
    THEN CHOOSE k \in 1..Len(s) : s[k] = ch /\ \A j \in 1..(k - 1) : s[j] # ch
    ELSE 0

StartsWith(s, p) == Len(p) <= Len(s) /\ SubSeq(s, 1, Len(p)) = p

RECURSIVE StrReplace(_, _, _)
\* str::replace: every non-overlapping occurrence of from, left to right
StrReplace(s, from, to) ==
    IF s = <<>> \/ from = <<>> THEN s
    ELSE IF StartsWith(s, from)
         THEN to \o StrReplace(SubSeq(s, Len(from) + 1, Len(s)), from, to)
         ELSE <<s[1]>> \o StrReplace(SubSeq(s, 2, Len(s)), from, to)

\* ------------------------------------------------------------------------
\* Numbers: str::parse::<usize>, str::parse::<f32>, f32 + f32, f32::to_string
\* ------------------------------------------------------------------------

ParseErr == [ok |-> FALSE]

\* channel.parse::<usize>(): an optional '+', then one or more digits
ParseUsize(s) ==
    LET body == IF s # <<>> /\ s[1] = "+" THEN SubSeq(s, 2, Len(s)) ELSE s
    IN IF body # <<>> /\ AllDigits(body)
       THEN [ok |-> TRUE, val |-> DigitsVal(body)]
       ELSE ParseErr

RECURSIVE Bits(_)
\* the number of binary digits of n >= 1
Bits(n) == IF n < 2 THEN 1 ELSE 1 + Bits(n \div 2)

\* a / b rounded to the nearest integer, ties to the even one
RoundDivEven(a, b) ==
    LET q == a \div b
        r == a % b
    IN IF 2 * r < b THEN q
       ELSE IF 2 * r > b THEN q + 1
       ELSE IF q % 2 = 0 THEN q ELSE q + 1

F32Zero == [m |-> 0, e |-> 0]

\* the f32 nearest to ip + num / den, where 0 <= num < den
F32Nearest(ip, num, den) ==
    IF ip = 0 /\ num = 0 THEN F32Zero
    ELSE LET e == IF ip >= 1 THEN 24 - Bits(ip)
                  ELSE 23 + (CHOOSE j \in 1..8 :
                               /\ num * (2 ^ j) >= den
                               /\ \A h \in 1..(j - 1) : num * (2 ^ h) < den)
             m == ip * (2 ^ e) + RoundDivEven(num * (2 ^ e), den)
         IN IF m = 2 ^ 24 THEN [m |-> 2 ^ 23, e |-> e - 1] ELSE [m |-> m, e |-> e]

\* channel.parse::<f32>() on the decimal forms "12", "12.", "12.5", ".5"
\* (signs, exponents, "inf" and "nan", which Rust also accepts, are not
\* among the channel values of this model)
ParseF32(s) ==
    LET dot == IndexOf(s, ".")
        ipart == IF dot = 0 THEN s ELSE SubSeq(s, 1, dot - 1)
        fpart == IF dot = 0 THEN <<>> ELSE SubSeq(s, dot + 1, Len(s))
    IN IF /\ AllDigits(ipart)
          /\ AllDigits(fpart)
          /\ Len(ipart) + Len(fpart) > 0
       THEN [ok |-> TRUE,
             val |-> F32Nearest(DigitsVal(ipart), DigitsVal(fpart), 10 ^ Len(fpart))]
       ELSE ParseErr

\* x + n in f32 arithmetic, n a small natural number (exact as an f32)
F32AddNat(x, n) ==
    LET p == 2 ^ x.e
        ip == (x.m \div p) + n
        fr == x.m % p
    IN IF ip = 0 THEN x
       ELSE LET e2 == 24 - Bits(ip)
            IN IF e2 >= x.e
               THEN [m |-> x.m + n * p, e |-> x.e]
               ELSE LET m2 == ip * (2 ^ e2) + RoundDivEven(fr, 2 ^ (x.e - e2))
                    IN IF m2 = 2 ^ 24 THEN [m |-> 2 ^ 23, e |-> e2 - 1]
                       ELSE [m |-> m2, e |-> e2]

RECURSIVE F32Digits(_, _, _, _, _)
\* the shortest decimal expansion that reads back as the same f32: scaled is
\* the integer part of value * 10^k, fr / p its fractional part
F32Digits(scaled, fr, p, k, even) ==
    LET tenk == 10 ^ k
        downOk == IF even THEN 2 * fr <= tenk ELSE 2 * fr < tenk
        upOk == IF even THEN 2 * (p - fr) <= tenk ELSE 2 * (p - fr) < tenk
        pick == IF downOk /\ (~upOk \/ 2 * fr <= p) THEN scaled ELSE scaled + 1
    IN IF fr = 0 \/ downOk \/ upOk
       THEN LET d == IF fr = 0 THEN scaled ELSE pick
            IN [int |-> d \div tenk, frac |-> d % tenk, k |-> k]
       ELSE F32Digits(10 * scaled + ((10 * fr) \div p), (10 * fr) % p, p, k + 1, even)

\* f32::to_string (Display): no exponent, no trailing ".0"
F32ToStr(x) ==
    LET p == 2 ^ x.e
        d == F32Digits(x.m \div p, x.m % p, p, 0, x.m % 2 = 0)
    IN IF d.k = 0 THEN NatToStr(d.int)
       ELSE NatToStr(d.int) \o <<".">> \o PadDigits(d.frac, d.k)

\* ------------------------------------------------------------------------
\* Stations, backends and configuration
\* ------------------------------------------------------------------------

\* Option<T>
None == [some |-> FALSE]

Some(v) == [some |-> TRUE, v |-> v]

UnwrapOr(o, d) == IF o.some THEN o.v ELSE d

\* the number of LocastService backends the Multiplexer is built over
NumBackends == 2

Backends == 1..NumBackends

Letter == <<"a", "b", "c", "d", "e", "f">>

\* station ids are globally unique: backend b owns the ids "<letter b><k>"
StationId(b, k) == <<Letter[b], DigitChar[k + 1]>>

UnknownId == <<"z", "9">>

PoolChannel(b, k) ==
    IF b % 2 = 1
    THEN <<  <<"5", ".", "1">>,  <<"7", ".", "0">>,  <<"H", "D">>  >>[k]
    ELSE <<  <<"1", "3">>,  <<"5", ".", "1">>,  <<"8", ".", "0", "2">>  >>[k]

PoolCallSign(b, k) ==
    IF b % 2 = 1
    THEN <<  <<"5", ".", "1", " ", "Q">>,  <<"C", "B", "S">>,  <<"W">>  >>[k]
    ELSE <<  <<"C", "B", "S">>,  <<>>,  <<"K">>  >>[k]

PoolName(b, k) == IF k = 2 THEN <<"P", "B", "S">> ELSE <<"n", DigitChar[k + 1]>>

\* a Station as a backend returns it: no remap field is set
PoolStation(b, k) ==
    [id |-> StationId(b, k),
     name |-> PoolName(b, k),
     city |-> <<"c", DigitChar[b + 1]>>,
     callSign |-> PoolCallSign(b, k),
     callSign_remapped |-> None,
     channel |-> PoolChannel(b, k),
     channel_remapped |-> None,
     active |-> (k # 3),
     remapped |-> None]

\* the station lists a backend may return from stations(): the catalogs of
\* the first two backends change (stations come and go), a further backend
\* has a fixed one
BackendLists(b) ==
    IF b <= 2
    THEN { <<>>,
           <<PoolStation(b, 1), PoolStation(b, 2)>>,
           <<PoolStation(b, 2), PoolStation(b, 3)>> }
    ELSE { <<PoolStation(b, 1), PoolStation(b, 2)>> }

\* every choice of one list per backend
CatalogChoices ==
    {lists \in [Backends -> UNION {BackendLists(b) : b \in Backends}] :
        \A b \in Backends : lists[b] \in BackendLists(b)}

\* every station some backend may list
PoolStations ==
    UNION { UNION { {list[k] : k \in 1..Len(list)} : list \in BackendLists(b) } :
            b \in Backends }

AllIds == { station.id : station \in PoolStations }

RequestIds == AllIds \cup {UnknownId}

\* format!("channel.{}", station.id)
ChannelKey(id) == <<"c", "h", "a", "n", "n", "e", "l", ".">> \o id

\* a remap file: ChannelRedef entries by key; the first station of backend 1
\* has an active entry, its second station an inactive one, the first
\* station of backend 2 an active one
RemapFile ==
    [key \in {ChannelKey(StationId(1, 1)), ChannelKey(StationId(1, 2)),
              ChannelKey(StationId(2, 1))} |->
        IF key = ChannelKey(StationId(1, 1))
        THEN [original_call_sign |-> PoolCallSign(1, 1), remap_call_sign |-> <<"Z">>,
              original_channel |-> PoolChannel(1, 1), remap_channel |-> <<"9", ".", "9">>,
              active |-> TRUE]
        ELSE IF key = ChannelKey(StationId(1, 2))
        THEN [original_call_sign |-> PoolCallSign(1, 2), remap_call_sign |-> <<"Y">>,
              original_channel |-> PoolChannel(1, 2), remap_channel |-> <<"4", "4">>,
              active |-> FALSE]
        ELSE [original_call_sign |-> PoolCallSign(2, 1), remap_call_sign |-> <<"C", "B", "S">>,
              original_channel |-> PoolChannel(2, 1), remap_channel |-> <<"2">>,
              active |-> TRUE]]

\* Config.remap (auto-offset) and whether Config.remap_file names a file
Configs == [remap : BOOLEAN, remap_file : BOOLEAN]

\* Multiplexer::new: channel_remap is the content of the remap file, if any
ChannelRemap(cfg) == IF cfg.remap_file THEN Some(RemapFile) ELSE None

VARIABLES
    config,                  \* Multiplexer.config
    backend_stations,        \* what each backend's stations() returns now
    station_id_service_map,  \* Multiplexer.station_id_service_map
    response,                \* what the last request returned
    station_scan,            \* AppState.station_scan
    inflight,                \* the calls of stations() under way, step by step
    state,                   \* the StreamState of one watch connection
    status,                  \* "active", or "terminated" once a pull returned None
    emitted,                 \* the segment URLs of the chunks yielded so far
    pulls,                   \* the number of pulls made
    last,                    \* what the last pull did
    ledger,                  \* the seconds of media yielded: in all, and on the current URL
    feed,                    \* the playlist a fixed upstream serves
    conns                    \* the watch connections of a server that serves several

muxVars == <<config, backend_stations, station_id_service_map, response, station_scan,
             inflight>>

relayVars == <<state, status, emitted, pulls, last, ledger, feed, conns>>

vars == <<config, backend_stations, station_id_service_map, response, station_scan,
          inflight,
          state, status, emitted, pulls, last, ledger, feed, conns>>

\* ------------------------------------------------------------------------
\* Multiplexer (service/multiplexer.rs)
\* ------------------------------------------------------------------------

\* the offset between the channel numbers of consecutive backends
ChannelOffset == 100

\* the auto-offset channel of a station of the backend at ordinal i:
\* Some(new channel), or None where the code panics
AutoRemapChannel(channel, i) ==
    LET u == ParseUsize(channel)
        f == ParseF32(channel)
    IN IF u.ok THEN Some(NatToStr(u.val + ChannelOffset * i))
       ELSE IF f.ok THEN Some(F32ToStr(F32AddNat(f.val, ChannelOffset * i)))
       ELSE None

\* if self.config.remap { .. }: the station with both remap fields set
AutoRemap(station, i) ==
    LET c == AutoRemapChannel(station.channel, i)
    IN IF c.some
       THEN [ok |-> TRUE,
             station |-> [station EXCEPT
                 !.channel_remapped = c,
                 !.callSign_remapped =
                     Some(StrReplace(station.callSign, station.channel, c.v))]]
       ELSE [ok |-> FALSE]

\* ExplicitRemap without the test of the entry's active flag
ExplicitRemapIgnoringActive(channel_remap, station) ==
    LET key == ChannelKey(station.id)
    IN IF key \in DOMAIN channel_remap
       THEN [station EXCEPT
                !.channel_remapped = Some(channel_remap[key].remap_channel),
                !.callSign_remapped =
                    Some(channel_remap[key].remap_channel \o <<" ">>
                         \o channel_remap[key].remap_call_sign)]
       ELSE station

\* else if self.channel_remap.is_some() { .. }: the entry under
\* "channel.<id>", when there is one and it is active, overrides both fields
ExplicitRemap(channel_remap, station) ==
    LET key == ChannelKey(station.id)
    IN IF key \in DOMAIN channel_remap /\ channel_remap[key].active
       THEN [station EXCEPT
                !.channel_remapped = Some(channel_remap[key].remap_channel),
                !.callSign_remapped =
                    Some(channel_remap[key].remap_channel \o <<" ">>
                         \o channel_remap[key].remap_call_sign)]
       ELSE station

\* RemapStation looking at the remap file before the auto-offset flag
RemapStationFileFirst(cfg, i, station) ==
    IF ChannelRemap(cfg).some
    THEN [ok |-> TRUE, station |-> ExplicitRemap(ChannelRemap(cfg).v, station)]
    ELSE IF cfg.remap THEN AutoRemap(station, i)
         ELSE [ok |-> TRUE, station |-> station]

\* the body of the inner loop of stations() up to the route table insert
RemapStation(cfg, i, station) ==
    IF cfg.remap THEN AutoRemap(station, i)
    ELSE IF ChannelRemap(cfg).some
         THEN [ok |-> TRUE, station |-> ExplicitRemap(ChannelRemap(cfg).v, station)]
         ELSE [ok |-> TRUE, station |-> station]

\* RemapStation tabulated over the configurations, ordinals and stations of
\* the model (it is a pure function of the three; @@ makes the table explicit)
RemapTable ==
    [cfg \in Configs, i \in 0..(NumBackends - 1), station \in PoolStations |->
        RemapStation(cfg, i, station)] @@ <<>>

EmptyMap == [x \in {} |-> 0]

\* HashMap::insert
MapInsert(map, key, val) ==
    [x \in (DOMAIN map) \cup {key} |-> IF x = key THEN val ELSE map[x]]

RECURSIVE StationsFromLastService(_, _, _, _, _, _)
\* StationsFrom recording the last backend, not the current one, as the owner
StationsFromLastService(cfg, lists, b, k, all_stations, map) ==
    IF b > Len(lists)
    THEN [panicked |-> FALSE, all_stations |-> all_stations, map |-> map]
    ELSE IF k > Len(lists[b])
    THEN StationsFromLastService(cfg, lists, b + 1, 1, all_stations, map)
    ELSE LET r == RemapTable[cfg, b - 1, lists[b][k]]
         IN IF ~r.ok
            THEN [panicked |-> TRUE, all_stations |-> all_stations, map |-> map]
            ELSE StationsFromLastService(cfg, lists, b, k + 1,
                                         Append(all_stations, r.station),
                                         MapInsert(map, r.station.id, Len(lists)))

RECURSIVE StationsFrom(_, _, _, _, _, _)
\* Multiplexer::stations from station k of backend b on: the merged list, the
\* route table, and whether a channel that could not be remapped stopped it
StationsFrom(cfg, lists, b, k, all_stations, map) ==
    IF b > Len(lists)
    THEN [panicked |-> FALSE, all_stations |-> all_stations, map |-> map]
    ELSE IF k > Len(lists[b])
    THEN StationsFrom(cfg, lists, b + 1, 1, all_stations, map)
    ELSE LET r == RemapTable[cfg, b - 1, lists[b][k]]
         IN IF ~r.ok
            THEN [panicked |-> TRUE, all_stations |-> all_stations, map |-> map]
            ELSE StationsFrom(cfg, lists, b, k + 1,
                              Append(all_stations, r.station),
                              MapInsert(map, r.station.id, b))

\* Multiplexer::stations: the route table it is given is the one it writes to
Stations(cfg, lists, map) == StationsFrom(cfg, lists, 1, 1, <<>>, map)

\* LocastService::station_stream_uri of backend b, as the backend answers
BackendStreamUri(b, id, outcome) == [service |-> b, id |-> id, outcome |-> outcome]

NotFound == [service |-> 0, id |-> <<>>, outcome |-> "NotFound"]

\* the lookup of station_stream_uri in the refreshed route table
LookupService(map, id) == IF id \in DOMAIN map THEN Some(map[id]) ELSE None

\* ------------------------------------------------------------------------
\* HTTP handlers over the catalog (http/mod.rs)
\* ------------------------------------------------------------------------

\* MapJsonEntry falling back to the station name, not its call sign
MapJsonEntryNameFallback(station) ==
    [original_call_sign |-> station.callSign,
     remap_call_sign |-> UnwrapOr(station.callSign_remapped, station.name),
     original_channel |-> station.channel,
     remap_channel |-> UnwrapOr(station.channel_remapped, station.channel),
     city |-> station.city,
     active |-> station.active,
     remapped |-> UnwrapOr(station.remapped, FALSE)]

\* the ChannelRemapEntry map_json builds for one station
MapJsonEntry(station) ==
    [original_call_sign |-> station.callSign,
     remap_call_sign |-> UnwrapOr(station.callSign_remapped, station.callSign),
     original_channel |-> station.channel,
     remap_channel |-> UnwrapOr(station.channel_remapped, station.channel),
     city |-> station.city,
     active |-> station.active,
     remapped |-> UnwrapOr(station.remapped, FALSE)]

RECURSIVE MapJsonFrom(_, _, _)
\* collect() into a HashMap: a later station with the same key replaces an
\* earlier one
MapJsonFrom(stations, k, map) ==
    IF k > Len(stations) THEN map
    ELSE MapJsonFrom(stations, k + 1,
                     MapInsert(map, ChannelKey(stations[k].id), MapJsonEntry(stations[k])))

MapJsonBody(stations) == MapJsonFrom(stations, 1, EmptyMap)

\* serde reading a ChannelRemapEntry object as a ChannelRedef of the remap
\* file: the fields ChannelRedef does not have are ignored
AsChannelRedef(entry) ==
    [original_call_sign |-> entry.original_call_sign,
     remap_call_sign |-> entry.remap_call_sign,
     original_channel |-> entry.original_channel,
     remap_channel |-> entry.remap_channel,
     active |-> entry.active]

\* the /map.json body loaded as a remap file by Multiplexer::new
AsRemapFile(body) == [key \in DOMAIN body |-> AsChannelRedef(body[key])]

NoResponse == [kind |-> "none"]

\* the tasks that may be inside Multiplexer::stations at the same time (the
\* handlers of two requests)
Callers == {"p", "q"}

\* a task that is not inside a call
IdleCall ==
    [pc |-> "idle", kind |-> "none", id |-> <<>>, b |-> 0, list |-> <<>>, k |-> 0,
     all_stations |-> <<>>, observed |-> EmptyMap, result |-> None]

\* no call is under way; `writer` tells, for each key of the route table, the
\* call that wrote it last: a caller still inside stations(), or "done"
NoCalls == [calls |-> [p \in Callers |-> IdleCall], writer |-> EmptyMap]

Panic == [kind |-> "panic"]

\* nothing has been yielded yet
NoneServed == [total |-> 0, on_url |-> 0]

\* the connections a server may be serving at the same time
Conns == {"x", "y"}

\* a connection no request has come in on yet
IdleConn ==
    [id |-> <<>>, status |-> "idle", pulls |-> 0,
     state |-> [segments |-> <<>>, url |-> [dir |-> 0, token |-> 0],
                seconds_served |-> 0, count_down |-> 0]]

NoConns == [c \in Conns |-> IdleConn]

\* no watch connection is open
RelayIdle ==
    /\ state = [segments |-> <<>>, url |-> [dir |-> 0, token |-> 0],
                seconds_served |-> 0, count_down |-> 0]
    /\ status = "terminated"
    /\ emitted = <<>>
    /\ pulls = 0
    /\ last = [kind |-> "none"]
    /\ ledger = NoneServed
    /\ feed = <<>>
    /\ conns = NoConns

Init ==
    /\ config \in Configs
    /\ backend_stations \in CatalogChoices
    /\ station_id_service_map = EmptyMap
    /\ response = NoResponse
    /\ station_scan = FALSE
    /\ inflight = NoCalls
    /\ RelayIdle

\* a backend's catalog changes
BackendUpdate(b, list) ==
    /\ list # backend_stations[b]
    /\ backend_stations' = [backend_stations EXCEPT ![b] = list]
    /\ response' = NoResponse
    /\ UNCHANGED <<config, station_id_service_map, station_scan, inflight, relayVars>>

\* GET /epg: the catalog as stations() returns it
Epg ==
    LET r == Stations(config, backend_stations, station_id_service_map)
    IN /\ station_id_service_map' = r.map
       /\ response' = IF r.panicked THEN Panic
                      ELSE [kind |-> "epg", stations |-> r.all_stations]
       /\ UNCHANGED <<config, backend_stations, station_scan, inflight, relayVars>>

\* GET /map.json
MapJson ==
    LET r == Stations(config, backend_stations, station_id_service_map)
    IN /\ station_id_service_map' = r.map
       /\ response' = IF r.panicked THEN Panic
                      ELSE [kind |-> "map_json", stations |-> r.all_stations,
                            body |-> MapJsonBody(r.all_stations)]
       /\ UNCHANGED <<config, backend_stations, station_scan, inflight, relayVars>>

\* Multiplexer::station_stream_uri(id): refresh, look the id up, delegate
StationStreamUri(id, outcome) ==
    LET r == Stations(config, backend_stations, station_id_service_map)
        service == LookupService(r.map, id)
    IN /\ station_id_service_map' = r.map
       /\ response' = IF r.panicked THEN Panic
                      ELSE [kind |-> "station_stream_uri", id |-> id,
                            stations |-> r.all_stations,
                            result |-> IF service.some
                                       THEN BackendStreamUri(service.v, id, outcome)
                                       ELSE NotFound]
       /\ UNCHANGED <<config, backend_stations, station_scan, inflight, relayVars>>

Next ==
    \/ \E b \in Backends : \E list \in BackendLists(b) : BackendUpdate(b, list)
    \/ Epg
    \/ MapJson
    \/ \E id \in RequestIds : \E outcome \in {"Ok", "Err"} : StationStreamUri(id, outcome)

Spec == Init /\ [][Next]_vars

\* ------------------------------------------------------------------------
\* Properties of the Multiplexer and of the catalog endpoints
\* ------------------------------------------------------------------------

HasCatalog == response.kind \in {"epg", "map_json", "station_stream_uri"}

IdsOf(stations) == { stations[p].id : p \in 1..Len(stations) }

Lists(b) == { backend_stations[b][k].id : k \in 1..Len(backend_stations[b]) }

RECURSIVE Concat(_, _)
\* the backends' own lists, one after the other, from backend b on
Concat(lists, b) == IF b > Len(lists) THEN <<>> ELSE lists[b] \o Concat(lists, b + 1)

\* the backend whose id pool a station id belongs to
OwnerOf(id) == CHOOSE b \in Backends : \E k \in 1..3 : StationId(b, k) = id

\* C1: after any sequence of refreshes, station_stream_uri(id) for an id of
\* the catalog it has just refreshed delegates to exactly the backend whose
\* station list holds that id, and returns what that backend answers.
C1_RoutesToOwner ==
    (response.kind = "station_stream_uri" /\ response.id \in IdsOf(response.stations))
    => /\ response.result.outcome \in {"Ok", "Err"}
       /\ response.result.id = response.id
       /\ \A b \in Backends : (response.result.service = b) <=> (response.id \in Lists(b))

C1_Witness ==
    /\ response.kind = "station_stream_uri"
    /\ response.id \in IdsOf(response.stations)
    /\ response.result.service = 2
    /\ response.result.outcome = "Ok"
    /\ Lists(1) # {}

\* C2: station_stream_uri(id) for an id that is absent from the catalog its
\* refresh produced returns NotFound and delegates to no backend.
C2_AbsentIsNotFound ==
    (response.kind = "station_stream_uri" /\ response.id \notin IdsOf(response.stations))
    => response.result = NotFound

\* what the claim expects of a numeric channel c on the backend at ordinal i
\* under auto-offset: c + 100 * i, an integer written as an integer, a
\* decimal keeping its fraction digits
ExactOffset(channel, i) ==
    LET dot == IndexOf(channel, ".")
    IN IF dot = 0 THEN NatToStr(DigitsVal(channel) + 100 * i)
       ELSE NatToStr(DigitsVal(SubSeq(channel, 1, dot - 1)) + 100 * i)
            \o SubSeq(channel, dot, Len(channel))

IsNumeric(channel) == ParseUsize(channel).ok \/ ParseF32(channel).ok

\* C3: with auto-offset enabled, every station with a numeric channel c of
\* the backend at ordinal i gets the remapped channel c + 100 * i, an integer
\* for an integer c and a decimal for a decimal c; its channel is unchanged.
C3_AutoOffsetIsExact ==
    (config.remap /\ HasCatalog)
    => \A p \in 1..Len(response.stations) :
          LET station == response.stations[p]
              raw == Concat(backend_stations, 1)[p]
          IN IsNumeric(raw.channel)
             => /\ station.channel = raw.channel
                /\ station.channel_remapped =
                       Some(ExactOffset(raw.channel, OwnerOf(raw.id) - 1))

\* C4: with a remap file and no auto-offset, a station whose entry
\* "channel.<id>" is active gets the entry's remap_channel and the call sign
\* "<remap_channel> <remap_call_sign>"; a station with no entry or an
\* inactive one is returned as the backend gave it.
C4_ExplicitMap ==
    (~config.remap /\ config.remap_file /\ HasCatalog)
    => /\ Len(response.stations) = Len(Concat(backend_stations, 1))
       /\ \A p \in 1..Len(response.stations) :
             LET station == response.stations[p]
                 raw == Concat(backend_stations, 1)[p]
                 key == ChannelKey(raw.id)
             IN IF key \in DOMAIN RemapFile /\ RemapFile[key].active
                THEN station =
                       [raw EXCEPT
                          !.channel_remapped = Some(RemapFile[key].remap_channel),
                          !.callSign_remapped =
                              Some(RemapFile[key].remap_channel \o <<" ">>
                                   \o RemapFile[key].remap_call_sign)]
                ELSE station = raw /\ ~station.channel_remapped.some
                     /\ ~station.callSign_remapped.some

C4_Witness ==
    /\ ~config.remap /\ config.remap_file /\ response.kind = "epg"
    /\ \E p, q, r \in 1..Len(response.stations) :
          /\ response.stations[p].channel_remapped = Some(<<"9", ".", "9">>)
          /\ response.stations[p].callSign_remapped = Some(<<"9", ".", "9", " ", "Z">>)
          /\ ChannelKey(response.stations[q].id) \in DOMAIN RemapFile
          /\ ~response.stations[q].channel_remapped.some
          /\ ChannelKey(response.stations[r].id) \notin DOMAIN RemapFile

\* the channel and call sign a station shows: the remapped one when set
Shown(station) ==
    [channel |-> UnwrapOr(station.channel_remapped, station.channel),
     callSign |-> UnwrapOr(station.callSign_remapped, station.callSign)]

\* C9: loading the /map.json output as the remap file is a round trip: the
\* explicit remap under that file gives every station the channel and the
\* call sign it already has.
C9_MapJsonRoundTrip ==
    response.kind = "map_json"
    => \A p \in 1..Len(response.stations) :
          Shown(ExplicitRemap(AsRemapFile(response.body),
                              Concat(backend_stations, 1)[p]))
          = Shown(response.stations[p])

Unremapped(station) == ~station.channel_remapped.some /\ ~station.callSign_remapped.some

\* C10: in /map.json every station has exactly one entry, under
\* "channel.<id>", and the entry of a station with no remap applied has its
\* remap fields equal to the original ones and remapped = false.
C10_MapJsonUnremapped ==
    response.kind = "map_json"
    => /\ DOMAIN response.body = { ChannelKey(id) : id \in IdsOf(response.stations) }
       /\ Cardinality(DOMAIN response.body) = Len(response.stations)
       /\ \A p \in 1..Len(response.stations) :
             LET station == response.stations[p]
                 entry == response.body[ChannelKey(station.id)]
             IN Unremapped(station)
                => /\ entry.original_call_sign = station.callSign
                   /\ entry.remap_call_sign = station.callSign
                   /\ entry.original_channel = station.channel
                   /\ entry.remap_channel = station.channel
                   /\ entry.remapped = FALSE

C10_Witness ==
    /\ response.kind = "map_json"
    /\ \E p, q \in 1..Len(response.stations) :
          /\ Unremapped(response.stations[p])
          /\ response.stations[p].callSign # response.stations[p].name
          /\ ~Unremapped(response.stations[q])

\* ------------------------------------------------------------------------
\* The stream relay (http/mod.rs, get_stream)
\* ------------------------------------------------------------------------

\* seconds of media after which the upstream URL is resolved again
CountDown == 9900

\* the queue length from which the oldest segments are dropped
DrainThreshold == 30

\* how many segments one drain drops
DrainCount == 10

\* the number of pulls the model follows one connection for
MaxPulls == 4

\* upstream playlist URLs: the segment URIs of a playlist are relative, and
\* resolve against the directory of the playlist URL
FirstUrl == [dir |-> 1, token |-> 1]

ResolvedUrls == {[dir |-> 1, token |-> 2], [dir |-> 2, token |-> 1]}

\* Url::parse(&state.url).join(ms.uri())
Join(url, uri) == [dir |-> url.dir, seg |-> uri]

MediaSegment(uri, duration) == [uri |-> uri, duration |-> duration]

\* a playlist listing the count segments from first on, each of 2 seconds
Window(first, count) == [k \in 1..count |-> MediaSegment(first + k - 1, 2)]

\* the playlists the upstream may answer with: a short live window, the window
\* one segment later (which lists a segment twice, with two durations), two
\* long windows, and segments long enough to use up the countdown
Playlists ==
    { Window(1, 3),
      Window(2, 3) \o <<MediaSegment(2, 6)>>,
      Window(1, 30),
      Window(1, 50),
      <<MediaSegment(61, 4950), MediaSegment(62, 4950), MediaSegment(63, 4950)>> }

\* seconds of wall clock since the stream started, in milliseconds; the
\* wall clock may have been set back
ElapsedMs == {0 - 2000, 0, 3000}

\* get_stream: the StreamState of a new connection
FreshState(url) ==
    [segments |-> <<>>, url |-> url, seconds_served |-> 0, count_down |-> CountDown]

\* state.count_down < 0.0
UrlExpired(st) == st.count_down < 0

\* Segment equality as #[derive(PartialEq)] would define it: on every field
SegmentEqDerived(a, b) == a = b

\* impl PartialEq for Segment: the URL alone
SegmentEq(a, b) == a.url = b.url

\* VecDeque::contains
Contains(segments, seg) == \E k \in 1..Len(segments) : SegmentEq(segments[k], seg)

\* for media_segment in media_playlist.segments { .. push_back unless
\* contained .. }: the loop appends, in playlist order, every entry whose
\* absolute URL is neither queued nor listed earlier in the same playlist
AppendNew(segments, url, playlist) ==
    LET listed == [k \in 1..Len(playlist) |->
                      [idx |-> k,
                       seg |-> [url |-> Join(url, playlist[k].uri), played |-> FALSE,
                                duration |-> playlist[k].duration]]]
        IsNew(e) == /\ ~Contains(segments, e.seg)
                    /\ \A j \in 1..(e.idx - 1) : ~SegmentEq(listed[j].seg, e.seg)
        fresh == SelectSeq(listed, IsNew)
    IN segments \o [k \in 1..Len(fresh) |-> fresh[k].seg]

\* Drain with > for >=
DrainAbove(segments) ==
    IF Len(segments) > DrainThreshold
    THEN SubSeq(segments, DrainCount + 1, Len(segments))
    ELSE segments

\* if state.segments.len() >= 30 { state.segments.drain(0..10); }
Drain(segments) ==
    IF Len(segments) >= DrainThreshold
    THEN SubSeq(segments, DrainCount + 1, Len(segments))
    ELSE segments

\* FirstUnplayed searching from the back of the queue
LastUnplayed(segments) ==
    IF \E k \in 1..Len(segments) : ~segments[k].played
    THEN CHOOSE k \in 1..Len(segments) :
            ~segments[k].played /\ \A j \in (k + 1)..Len(segments) : segments[j].played
    ELSE 0

\* state.segments.iter_mut().find(|s| !s.played): its index, or 0
FirstUnplayed(segments) ==
    IF \E k \in 1..Len(segments) : ~segments[k].played
    THEN CHOOSE k \in 1..Len(segments) :
            ~segments[k].played /\ \A j \in 1..(k - 1) : segments[j].played
    ELSE 0

\* WaitMs taking the whole duration of the segment for half of it
WaitMsWholeSegment(seconds_served, duration, runtime_ms) ==
    IF seconds_served > 0
    THEN 1000 * seconds_served - 1000 * duration - runtime_ms
    ELSE 0

\* WaitMs without the test of seconds_served
WaitMsUnguarded(seconds_served, duration, runtime_ms) ==
    1000 * seconds_served - 500 * duration - runtime_ms

\* let wait = if state.seconds_served > 0.0 { .. } else { 0.0 }, in
\* milliseconds (durations are whole seconds)
WaitMs(seconds_served, duration, runtime_ms) ==
    IF seconds_served > 0
    THEN 1000 * seconds_served - 500 * duration - runtime_ms
    ELSE 0

\* Serve leaving the countdown as it is
ServeWithoutCountDown(st, first) ==
    [st EXCEPT !.segments[first].played = TRUE,
               !.seconds_served = @ + st.segments[first].duration]

\* first.played = true; state.seconds_served += ..; state.count_down -= ..
Serve(st, first) ==
    [st EXCEPT !.segments[first].played = TRUE,
               !.seconds_served = @ + st.segments[first].duration,
               !.count_down = @ - st.segments[first].duration]

\* Ended leaving the stream open
EndedStillOpen(st, obs) == [state |-> st, ended |-> FALSE, chunk |-> None, obs |-> obs]

\* what utils::get of the playlist URL and MediaPlaylist::try_from answer
FetchError == [kind |-> "fetch_error"]

ParseError == [kind |-> "parse_error"]

Fetched(playlist) == [kind |-> "playlist", segments |-> playlist]

\* what a pull that ends the stream leaves behind
Ended(st, obs) == [state |-> st, ended |-> TRUE, chunk |-> None, obs |-> obs]

\* what a pull did: whether it asked for a new URL, fetched the playlist,
\* parsed it (and then the playlist, the queue length before the append,
\* after it and after the drain), whether it computed the pacing wait (and
\* then the duration of the segment, the wait, whether it slept and for how
\* long), and seconds_served as it began
NoObs ==
    [resolved |-> FALSE, fetched |-> FALSE, parsed |-> FALSE, playlist |-> <<>>,
     before |-> 0, appended |-> 0, queued |-> 0, drained |-> FALSE,
     paced |-> FALSE, duration |-> 0, wait_ms |-> 0, slept |-> FALSE, sleep_ms |-> 0,
     seconds_before |-> 0]

\* one run of the closure of stream::unfold on state st. The inputs: what a
\* re-resolution answers (None: an error), what the playlist fetch answers,
\* the wall clock, and whether the segment fetch succeeds
PullResult(st, in) ==
    LET expired == UrlExpired(st)
        st1 == IF expired /\ in.resolve.some
               THEN [st EXCEPT !.url = in.resolve.v, !.count_down = CountDown]
               ELSE st
        obs1 == [NoObs EXCEPT !.resolved = expired,
                              !.seconds_before = st.seconds_served]
    IN IF expired /\ ~in.resolve.some THEN Ended(st, obs1)
       ELSE IF in.playlist.kind # "playlist"
       THEN Ended(st1, [obs1 EXCEPT !.fetched = TRUE])
       ELSE LET appended == AppendNew(st1.segments, st1.url, in.playlist.segments)
                segments == Drain(appended)
                st2 == [st1 EXCEPT !.segments = segments]
                first == FirstUnplayed(segments)
                obs2 == [obs1 EXCEPT !.fetched = TRUE,
                                     !.parsed = TRUE,
                                     !.playlist = in.playlist.segments,
                                     !.before = Len(st1.segments),
                                     !.appended = Len(appended),
                                     !.queued = Len(segments),
                                     !.drained = (Len(segments) # Len(appended))]
            IN IF first = 0 THEN Ended(st2, obs2)
               ELSE LET wait == WaitMs(st2.seconds_served, segments[first].duration,
                                       in.elapsed_ms)
                        obs3 == [obs2 EXCEPT !.paced = TRUE,
                                             !.duration = segments[first].duration,
                                             !.wait_ms = wait,
                                             !.slept = (wait > 0),
                                             !.sleep_ms = IF wait > 0 THEN wait ELSE 0]
                    IN IF ~in.segment_ok THEN Ended(st2, obs3)
                       ELSE [state |-> Serve(st2, first),
                             ended |-> FALSE,
                             chunk |-> Some(segments[first].url),
                             obs |-> obs3]

\* the inputs a pull on state st can meet; an input the pull does not read
\* (no re-resolution is asked for, the pull ends before the clock is read)
\* has one value
PullInputs(st, playlists) ==
    LET input(res, pl, ms, ok) ==
            [resolve |-> res, playlist |-> pl, elapsed_ms |-> ms, segment_ok |-> ok]
        resolutions == IF UrlExpired(st)
                       THEN {None} \cup {Some(u) : u \in ResolvedUrls}
                       ELSE {None}
        answers == {FetchError, ParseError} \cup {Fetched(p) : p \in playlists}
    IN UNION { IF PullResult(st, input(res, pl, 0, TRUE)).ended
               THEN {input(res, pl, 0, TRUE)}
               ELSE {input(res, pl, ms, ok) : ms \in ElapsedMs, ok \in BOOLEAN} :
               res \in resolutions, pl \in answers }

\* the seconds yielded once a pull has answered r: the count on the current
\* URL starts again when the pull took a new URL
Account(served, r) ==
    LET on_url == IF r.obs.resolved /\ r.obs.fetched THEN 0 ELSE served.on_url
        yielded == IF r.chunk.some THEN r.obs.duration ELSE 0
    IN [total |-> served.total + yielded, on_url |-> on_url + yielded]

\* the response writer asks for the next chunk
Pull(in) ==
    /\ status = "active"
    /\ pulls < MaxPulls
    /\ \E r \in {PullResult(state, in)} :
          /\ state' = r.state
          /\ status' = IF r.ended THEN "terminated" ELSE "active"
          /\ emitted' = IF r.chunk.some THEN Append(emitted, r.chunk.v) ELSE emitted
          /\ last' = [kind |-> "pull", chunk |-> r.chunk, obs |-> r.obs, input |-> in]
          /\ ledger' = Account(ledger, r)
    /\ pulls' = pulls + 1
    /\ UNCHANGED <<muxVars, feed, conns>>

MuxIdle ==
    /\ config = [remap |-> FALSE, remap_file |-> FALSE]
    /\ backend_stations = [b \in Backends |-> <<>>]
    /\ station_id_service_map = EmptyMap
    /\ response = NoResponse
    /\ station_scan = FALSE
    /\ inflight = NoCalls

\* a watch connection has just been opened on a resolved URL
RelayInit ==
    /\ MuxIdle
    /\ state = FreshState(FirstUrl)
    /\ status = "active"
    /\ emitted = <<>>
    /\ pulls = 0
    /\ last = [kind |-> "none"]
    /\ ledger = NoneServed
    /\ feed = <<>>
    /\ conns = NoConns

RelayNext == \E in \in PullInputs(state, Playlists) : Pull(in)

\* one relay, the upstream answering anything at each pull
RelaySpec == RelayInit /\ [][RelayNext]_vars

\* the playlists of a fixed upstream: up to MaxPulls - 1 segments, one after
\* the other, of 2 or 6 seconds each, and one that lists a segment again
FixedPlaylists ==
    UNION { { [k \in 1..n |-> MediaSegment(k, d[k])] : d \in [1..n -> {2, 6}] } :
            n \in 0..(MaxPulls - 1) }
    \cup { <<MediaSegment(1, 2), MediaSegment(2, 2), MediaSegment(1, 2)>> }

FixedInit ==
    /\ MuxIdle
    /\ state = FreshState(FirstUrl)
    /\ status = "active"
    /\ emitted = <<>>
    /\ pulls = 0
    /\ last = [kind |-> "none"]
    /\ ledger = NoneServed
    /\ feed \in FixedPlaylists
    /\ conns = NoConns

FixedNext ==
    \E in \in PullInputs(state, {feed}) :
        /\ in.playlist.kind = "playlist"
        /\ in.segment_ok
        /\ Pull(in)

\* one relay, the upstream answering every pull with the same playlist and
\* every fetch succeeding
FixedSpec == FixedInit /\ [][FixedNext]_vars

\* ------------------------------------------------------------------------
\* Properties of the relay
\* ------------------------------------------------------------------------

Parsed == last.kind = "pull" /\ last.obs.parsed

\* C5 as claimed: after the append-then-drain step of any pull, whatever
\* the playlist, the queue holds at most 39 segments, and at least 20 after a
\* drain.
C5_AtMost39 ==
    Parsed => /\ last.obs.queued <= 39
              /\ last.obs.drained => last.obs.queued >= 20

\* C5 as amended: the step drops exactly 10 segments when the append left 30
\* or more, so that at least 20 remain, and none when it left 29 or fewer;
\* the queue then holds at most 39 only if the append left at most 49.
C5_DrainStep ==
    Parsed => /\ last.obs.drained <=> last.obs.appended >= 30
              /\ last.obs.drained => /\ last.obs.queued = last.obs.appended - 10
                                     /\ last.obs.queued >= 20
              /\ ~last.obs.drained => /\ last.obs.queued = last.obs.appended
                                      /\ last.obs.queued <= 29
              /\ last.obs.queued = Len(state.segments)
              /\ last.obs.appended <= 49 => last.obs.queued <= 39

C5_Witness ==
    /\ Parsed
    /\ last.obs.drained
    /\ last.obs.before > 0
    /\ last.obs.queued \in 20..39

NoDuplicateUrls(segments) ==
    Cardinality({ segments[k].url : k \in 1..Len(segments) }) = Len(segments)

\* the absolute URLs a playlist fetched from base lists, in order
ListedUrls(playlist, base) == [k \in 1..Len(playlist) |-> Join(base, playlist[k].uri)]

\* for each of the URLs, all of them listed, the index of its first listing
FirstListing(listed, urls) ==
    [u \in urls |->
        CHOOSE k \in 1..Len(listed) :
            listed[k] = u /\ \A j \in 1..(k - 1) : listed[j] # u] @@ <<>>

\* one step of the relay, from the queue pre to the queue post: the drain
\* took `dropped` entries off the front of the queue the append had built, so
\* post starts with the `kept` last entries of pre and goes on with the
\* appended ones
C6_Step ==
    /\ NoDuplicateUrls(state'.segments)
    /\ (last'.kind = "pull" /\ last'.obs.parsed)
       => \A queuedUrls \in { { state.segments[k].url : k \in 1..Len(state.segments) } } :
          \A listed \in { ListedUrls(last'.obs.playlist, state'.url) \o <<>> } :
          \A unseen \in { { listed[k] : k \in 1..Len(listed) } \ queuedUrls } :
          \A first \in { FirstListing(listed, unseen) } :
             LET pre == state.segments
                 post == state'.segments
                 playlist == last'.obs.playlist
                 dropped == last'.obs.appended - Len(post)
                 kept == IF dropped < Len(pre) THEN Len(pre) - dropped ELSE 0
             IN /\ last'.obs.appended = Len(pre) + Cardinality(unseen)
                /\ dropped >= 0
                /\ kept <= Len(post)
                /\ \A k \in 1..kept :
                      /\ post[k].url = pre[k + dropped].url
                      /\ post[k].duration = pre[k + dropped].duration
                      /\ post[k].played =
                            (pre[k + dropped].played \/ last'.chunk = Some(post[k].url))
                /\ \A k \in (kept + 1)..Len(post) :
                      /\ post[k].url \in unseen
                      /\ post[k].played = (last'.chunk = Some(post[k].url))
                      /\ post[k].duration = playlist[first[post[k].url]].duration
                      /\ k > kept + 1 => first[post[k - 1].url] < first[post[k].url]
                /\ dropped <= Len(pre) => Len(post) - kept = Cardinality(unseen)

\* C6: no two entries of the queue ever have the same absolute URL: a pull
\* appends exactly the listed segments whose URL is not queued yet, in
\* playlist order and behind the queued ones, and leaves the played flag of
\* the queued ones as it was (but for the segment the pull plays).
C6_DedupByUrl == [][C6_Step]_vars

C6_Witness ==
    /\ Parsed
    /\ last.obs.before > 0
    /\ last.obs.appended > last.obs.before
    /\ last.obs.appended < last.obs.before + Len(last.obs.playlist)
    /\ \E k \in 1..Len(state.segments) :
          /\ state.segments[k].played
          /\ last.chunk # Some(state.segments[k].url)
          /\ \E j \in 1..Len(last.obs.playlist) :
                ListedUrls(last.obs.playlist, state.url)[j] = state.segments[k].url

\* the absolute URLs of the segments the fixed playlist lists, each once, in
\* the order of their first listing
FixedUrls ==
    LET listed == [k \in 1..Len(feed) |-> [idx |-> k, url |-> Join(FirstUrl, feed[k].uri)]]
        IsFirst(e) == \A j \in 1..(e.idx - 1) : listed[j].url # e.url
        firsts == SelectSeq(listed, IsFirst)
    IN [k \in 1..Len(firsts) |-> firsts[k].url]

\* C7: a fresh relay whose upstream always answers with the same playlist of
\* n < 30 segments, every fetch succeeding, yields one chunk per segment, in
\* playlist order, on its first n pulls, and ends on pull n + 1, not before.
C7_FixedPlaylist ==
    LET n == Len(FixedUrls)
    IN /\ pulls <= n + 1
       /\ emitted = SubSeq(FixedUrls, 1, IF pulls < n THEN pulls ELSE n)
       /\ (status = "terminated") <=> (pulls = n + 1)

C7_Witness ==
    /\ status = "terminated"
    /\ Len(feed) = 3
    /\ Len(emitted) = 3
    /\ pulls = 4

\* C8: on the first chunk of a fresh relay (seconds_served = 0) the pacing
\* wait is <= 0, whatever the segment's duration and the wall clock, and the
\* relay does not sleep before it fetches the segment.
C8_FirstChunkNotDelayed ==
    (last.kind = "pull" /\ last.obs.paced /\ last.obs.seconds_before = 0)
    => last.obs.wait_ms <= 0 /\ ~last.obs.slept

C8_Witness ==
    /\ last.kind = "pull"
    /\ last.obs.paced
    /\ last.obs.seconds_before = 0
    /\ last.chunk.some
    /\ pulls = 1
    /\ state.seconds_served > 2

\* ------------------------------------------------------------------------
\* The tuner endpoints (http/mod.rs)
\* ------------------------------------------------------------------------

\* const NETWORKS
NETWORKS ==
    { <<"A", "B", "C">>, <<"C", "B", "S">>, <<"N", "B", "C">>, <<"F", "O", "X">>,
      <<"C", "W">>, <<"P", "B", "S">> }

\* req.connection_info().host(): the Host the client asked for
Hosts == { <<"t", "v">>, <<"h", ":", "1">> }

\* req.match_info().get("id"): the ids clients ask to watch: a station of
\* the first backend, one of the second, and one no backend has
WatchIds == { StationId(1, 1), StationId(2, 1), UnknownId }

\* format!("http://{}/watch/{}", &host, &station.id)
WatchUrl(host, id) ==
    <<"h", "t", "t", "p", ":", "/", "/">> \o host \o <<"/", "w", "a", "t", "c", "h", "/">> \o id

\* format!("http://{}/watch/{}.m3u", &host, &station.id)
WatchM3uUrl(host, id) == WatchUrl(host, id) \o <<".", "m", "3", "u">>

\* LineupStatusBody answering for the opposite flag
LineupStatusBodyInverted(scan) ==
    IF ~scan
    THEN [ScanInProgress |-> TRUE, Progress |-> 50, Found |-> 6, SourceList |-> None]
    ELSE [ScanInProgress |-> FALSE, Progress |-> 50, Found |-> 6,
          SourceList |-> Some(<<"Antenna">>)]

\* lineup_status: the LineupStatus for the value of the flag
LineupStatusBody(scan) ==
    IF scan
    THEN [ScanInProgress |-> TRUE, Progress |-> 50, Found |-> 6, SourceList |-> None]
    ELSE [ScanInProgress |-> FALSE, Progress |-> 50, Found |-> 6,
          SourceList |-> Some(<<"Antenna">>)]

\* stations.iter().filter(|s| s.active)
IsActive(station) == station.active

\* LineupJsonEntry with the original channel whatever the remap
LineupJsonEntryOriginalChannel(host, station) ==
    [GuideNumber |-> station.channel,
     GuideName |-> station.name,
     URL |-> WatchUrl(host, station.id)]

\* lineup_json: the LineupJson of a station
LineupJsonEntry(host, station) ==
    [GuideNumber |-> UnwrapOr(station.channel_remapped, station.channel),
     GuideName |-> station.name,
     URL |-> WatchUrl(host, station.id)]

\* lineup_json: the entries of the active stations, in catalog order
LineupJsonBody(host, stations) ==
    LET active == SelectSeq(stations, IsActive)
    IN [k \in 1..Len(active) |-> LineupJsonEntry(host, active[k])]

\* impl Or for String: self unless empty
Or(self, other) == IF self # <<>> THEN self ELSE other

\* tuner_m3u: what one #EXTINF stanza says of a station (the logo and the
\* tvg-name, which repeat the call sign, are left out)
TunerM3uEntry(host, station) ==
    LET call_sign_or_name == Or(station.callSign, station.name)
        call_sign == UnwrapOr(station.callSign_remapped, call_sign_or_name)
        city == station.city
        channel == UnwrapOr(station.channel_remapped, station.channel)
        groups == IF call_sign \in NETWORKS
                  THEN city \o <<";", "N", "e", "t", "w", "o", "r", "k">>
                  ELSE city
    IN [tvg_id |-> ChannelKey(station.id),
        call_sign |-> call_sign,
        tvg_chno |-> channel,
        group_title |-> groups,
        url |-> WatchM3uUrl(host, station.id)]

\* tuner_m3u: one stanza per active station, in catalog order
TunerM3uBody(host, stations) ==
    LET active == SelectSeq(stations, IsActive)
    IN [k \in 1..Len(active) |-> TunerM3uEntry(host, active[k])]

\* what station_stream_uri(id) returns once stations() returned r
StreamUriResult(r, id, outcome) ==
    LET service == LookupService(r.map, id)
    IN IF service.some THEN BackendStreamUri(service.v, id, outcome) ELSE NotFound

\* the upstream playlist URL a backend answers with
StreamUrl(result) == [dir |-> result.service, token |-> 1]

\* AppError::error_response
ErrorResponse(result) == [status |-> "error", error |-> result.outcome]

\* WatchResponse streaming whatever the resolution answered
WatchResponseAlwaysStream(result) == [status |-> "stream", url |-> StreamUrl(result)]

\* watch: a streaming response over get_stream(url), or the error response
WatchResponse(result) ==
    IF result.outcome = "Ok"
    THEN [status |-> "stream", url |-> StreamUrl(result)]
    ELSE ErrorResponse(result)

\* watch_m3u: a temporary redirect to the upstream URL, or the error response
WatchM3uResponse(result) ==
    IF result.outcome = "Ok"
    THEN [status |-> "redirect", location |-> StreamUrl(result)]
    ELSE ErrorResponse(result)

\* GET /lineup_status.json
LineupStatus ==
    /\ response' = [kind |-> "lineup_status", body |-> LineupStatusBody(station_scan)]
    /\ UNCHANGED <<config, backend_stations, station_id_service_map, station_scan,
                   inflight, relayVars>>

\* POST /lineup.post
LineupPost ==
    /\ response' = [kind |-> "lineup_post", status |-> "NoContent"]
    /\ UNCHANGED <<config, backend_stations, station_id_service_map, station_scan,
                   inflight, relayVars>>

\* GET /lineup.json
LineupJson(host) ==
    LET r == Stations(config, backend_stations, station_id_service_map)
    IN /\ station_id_service_map' = r.map
       /\ response' = IF r.panicked THEN Panic
                      ELSE [kind |-> "lineup_json", host |-> host,
                            stations |-> r.all_stations,
                            body |-> LineupJsonBody(host, r.all_stations)]
       /\ UNCHANGED <<config, backend_stations, station_scan, inflight, relayVars>>

\* GET /tuner.m3u
TunerM3u(host) ==
    LET r == Stations(config, backend_stations, station_id_service_map)
    IN /\ station_id_service_map' = r.map
       /\ response' = IF r.panicked THEN Panic
                      ELSE [kind |-> "tuner_m3u", host |-> host,
                            stations |-> r.all_stations,
                            body |-> TunerM3uBody(host, r.all_stations)]
       /\ UNCHANGED <<config, backend_stations, station_scan, inflight, relayVars>>

\* GET /watch/{id}.m3u
WatchM3u(id, outcome) ==
    LET r == Stations(config, backend_stations, station_id_service_map)
        result == StreamUriResult(r, id, outcome)
    IN /\ station_id_service_map' = r.map
       /\ response' = IF r.panicked THEN Panic
                      ELSE [kind |-> "watch_m3u", id |-> id, result |-> result,
                            http |-> WatchM3uResponse(result)]
       /\ UNCHANGED <<config, backend_stations, station_scan, inflight, relayVars>>

\* GET /watch/{id}: on success the handler builds the StreamState of the
\* connection, which the response writer then pulls from
Watch(id, outcome) ==
    LET r == Stations(config, backend_stations, station_id_service_map)
        result == StreamUriResult(r, id, outcome)
        http == WatchResponse(result)
    IN /\ station_id_service_map' = r.map
       /\ response' = IF r.panicked THEN Panic
                      ELSE [kind |-> "watch", id |-> id, result |-> result,
                            http |-> http]
       /\ IF ~r.panicked /\ http.status = "stream"
          THEN /\ state' = FreshState(http.url)
               /\ status' = "active"
               /\ emitted' = <<>>
               /\ pulls' = 0
               /\ last' = [kind |-> "none"]
               /\ ledger' = NoneServed
               /\ UNCHANGED <<feed, conns>>
          ELSE UNCHANGED relayVars
       /\ UNCHANGED <<config, backend_stations, station_scan, inflight>>

TunerNext ==
    \/ \E b \in Backends : \E list \in BackendLists(b) : BackendUpdate(b, list)
    \/ LineupStatus
    \/ LineupPost
    \/ \E host \in Hosts : LineupJson(host)
    \/ \E host \in Hosts : TunerM3u(host)
    \/ \E id \in WatchIds : \E outcome \in {"Ok", "Err"} : WatchM3u(id, outcome)
    \/ \E id \in WatchIds : \E outcome \in {"Ok", "Err"} : Watch(id, outcome)

\* the tuner endpoints of one server, over a Multiplexer
TunerSpec == Init /\ [][TunerNext]_vars

\* ------------------------------------------------------------------------
\* Properties of the tuner endpoints
\* ------------------------------------------------------------------------

\* C11: in every reachable state of a tuner, whatever requests were served
\* (POST /lineup.post among them, which answers no-content and changes no
\* state), the scan flag is false, and /lineup_status.json reports
\* ScanInProgress = false with SourceList ["Antenna"].
C11_NeverScanning ==
    /\ station_scan = FALSE
    /\ response.kind = "lineup_status"
       => /\ response.body.ScanInProgress = FALSE
          /\ response.body.SourceList = Some(<<"Antenna">>)
    /\ response.kind = "lineup_post" => response.status = "NoContent"

C11_Witness ==
    /\ response.kind = "lineup_status"
    /\ station_id_service_map # EmptyMap
    /\ status = "active"

\* the number of active stations among the first k of the catalog
ActiveRank(stations, k) == Cardinality({ j \in 1..k : stations[j].active })

\* C12: /lineup.json has exactly one entry per active station of the
\* catalog, in catalog order, none for an inactive one; an entry's
\* GuideNumber is the remapped channel if set and the channel otherwise, its
\* GuideName the station's name, its URL http://<host>/watch/<id>.
C12_LineupJson ==
    response.kind = "lineup_json"
    => LET stations == response.stations
           body == response.body
       IN /\ Len(body) = ActiveRank(stations, Len(stations))
          /\ \A k \in 1..Len(stations) :
                stations[k].active
                => LET entry == body[ActiveRank(stations, k)]
                   IN /\ entry.GuideNumber =
                            (IF stations[k].channel_remapped.some
                             THEN stations[k].channel_remapped.v
                             ELSE stations[k].channel)
                      /\ entry.GuideName = stations[k].name
                      /\ entry.URL = <<"h", "t", "t", "p", ":", "/", "/">> \o response.host
                                       \o <<"/", "w", "a", "t", "c", "h", "/">>
                                       \o stations[k].id

C12_Witness ==
    /\ response.kind = "lineup_json"
    /\ Len(response.body) >= 2
    /\ Len(response.body) < Len(response.stations)
    /\ \E k \in 1..Len(response.stations) :
          /\ response.stations[k].active
          /\ response.stations[k].channel_remapped.some
          /\ response.stations[k].channel_remapped.v # response.stations[k].channel

C13_Step ==
    (response'.kind \in {"watch", "watch_m3u"} /\ response'.result.outcome # "Ok")
    => /\ response'.http.status = "error"
       /\ UNCHANGED relayVars

\* C13: for /watch/{id} and /watch/{id}.m3u, when the resolution of the
\* stream URI fails (unknown id, or the backend fails), the response is the
\* error response: no redirect is sent and no stream state is created, so no
\* chunk is produced for the request.
C13_WatchFailure == [][C13_Step]_vars

C13_Witness ==
    /\ response.kind = "watch"
    /\ response.result.outcome = "Err"
    /\ response.http.status = "error"
    /\ status = "terminated"
    /\ pulls = 0

\* C14: in /tuner.m3u every active station whose call sign is one of the
\* national network call signs has group-title "<city>;Network" and every
\* other active station "<city>", remapped stations included.
C14_NetworkGroup ==
    response.kind = "tuner_m3u"
    => \A k \in 1..Len(response.stations) :
          response.stations[k].active
          => LET station == response.stations[k]
                 entry == response.body[ActiveRank(response.stations, k)]
             IN entry.group_title =
                   (IF station.callSign \in NETWORKS
                    THEN station.city \o <<";", "N", "e", "t", "w", "o", "r", "k">>
                    ELSE station.city)

\* ------------------------------------------------------------------------
\* The route table across refreshes
\* ------------------------------------------------------------------------

\* C15: the route table is rebuilt, not appended: after every completed
\* refresh its keys are exactly the station ids of the merged catalog the
\* refresh returned, so a station that left its backend's list has no route
\* after the next refresh.
C15_RouteTableRebuilt ==
    HasCatalog => DOMAIN station_id_service_map = IdsOf(response.stations)

\* a request has been answered, and so a refresh of the catalog attempted
Refreshed == response.kind # "none"

\* every channel of the list can be offset
Remappable(list) == \A k \in 1..Len(list) : IsNumeric(list[k].channel)

\* C21: a backend whose contribution fails during a refresh (a channel that
\* cannot be parsed under auto-offset) fails alone: the refresh still returns
\* a merged catalog, and the stations of every other backend, earlier or
\* later in ordinal order, are in it and in the route table.
C21_FailureIsolated ==
    (Refreshed /\ config.remap)
    => /\ HasCatalog
       /\ \A b \in Backends :
             Remappable(backend_stations[b])
             => /\ Lists(b) \subseteq IdsOf(response.stations)
                /\ \A id \in Lists(b) :
                      id \in DOMAIN station_id_service_map
                      /\ station_id_service_map[id] = b

\* the fields of a station no remap policy writes
SameButRemap(station, raw) ==
    [station EXCEPT !.channel_remapped = None, !.callSign_remapped = None]
    = [raw EXCEPT !.channel_remapped = None, !.callSign_remapped = None]

\* C22: the remap policies exclude each other. With auto-offset on, every
\* station carries the offset channel and the call sign rewritten with it,
\* whatever the remap file says about it; with a remap file alone, a station
\* is remapped only by an active entry of the file, and then to the entry's
\* channel; with neither, the merged catalog is the backends' lists, one
\* after the other in ordinal order, every station as its backend gave it.
C22_PoliciesExclusive ==
    HasCatalog
    => LET raws == Concat(backend_stations, 1)
       IN /\ Len(response.stations) = Len(raws)
          /\ \A p \in 1..Len(response.stations) :
                LET station == response.stations[p]
                    raw == raws[p]
                    key == ChannelKey(raw.id)
                    entry_active == key \in DOMAIN RemapFile /\ RemapFile[key].active
                    offset == AutoRemapChannel(raw.channel, OwnerOf(raw.id) - 1)
                IN /\ SameButRemap(station, raw)
                   /\ config.remap
                      => /\ offset.some
                         /\ station.channel_remapped = offset
                         /\ station.callSign_remapped =
                                Some(StrReplace(raw.callSign, raw.channel, offset.v))
                   /\ (~config.remap /\ config.remap_file)
                      => /\ station.channel_remapped.some <=> entry_active
                         /\ station.callSign_remapped.some <=> entry_active
                         /\ entry_active
                            => station.channel_remapped =
                                  Some(RemapFile[key].remap_channel)
                   /\ (~config.remap /\ ~config.remap_file) => station = raw

C22_Witness ==
    /\ config.remap
    /\ config.remap_file
    /\ response.kind = "epg"
    /\ \E p \in 1..Len(response.stations) :
          /\ response.stations[p].id = StationId(1, 1)
          /\ RemapFile[ChannelKey(StationId(1, 1))].active
          /\ response.stations[p].channel_remapped = Some(<<"5", ".", "1">>)
    /\ \E q \in 1..Len(response.stations) :
          /\ response.stations[q].id = StationId(2, 1)
          /\ response.stations[q].channel_remapped = Some(<<"1", "1", "3">>)

\* ------------------------------------------------------------------------
\* Multiplexer::stations step by step, under concurrent callers
\* ------------------------------------------------------------------------

\* the id a concurrent station_stream_uri asks for
ConcIds == { StationId(1, 1) }

SetCall(p, call) == [inflight EXCEPT !.calls[p] = call]

\* a request handler enters stations(), directly or by way of
\* station_stream_uri(id)
CallBegin(p, kind, id) ==
    /\ inflight.calls[p].pc = "idle"
    /\ inflight' = SetCall(p, [IdleCall EXCEPT !.pc = "services", !.kind = kind,
                                               !.id = id, !.b = 1])
    /\ UNCHANGED <<config, backend_stations, station_id_service_map, response,
                   station_scan, relayVars>>

\* service.stations().await and the lock of the list: the loop over the
\* services reaches service b and reads the list it has now
ServiceStations(p) ==
    LET call == inflight.calls[p]
        list == backend_stations[call.b]
    IN /\ call.pc = "services"
       /\ call.b <= NumBackends
       /\ inflight' = SetCall(p, IF list = <<>>
                                 THEN [call EXCEPT !.b = @ + 1]
                                 ELSE [call EXCEPT !.pc = "stations", !.list = list,
                                                   !.k = 1])
       /\ UNCHANGED <<config, backend_stations, station_id_service_map, response,
                      station_scan, relayVars>>

\* the entries a call wrote, once the call has returned
Settle(writer, p) == [id \in DOMAIN writer |-> IF writer[id] = p THEN "done" ELSE writer[id]]

\* one turn of the loop over the stations of service b: remap the station,
\* lock the route table for the one insert, push the station
StationStep(p) ==
    LET call == inflight.calls[p]
        remapped == RemapStation(config, call.b - 1, call.list[call.k])
        station == remapped.station
        last_one == call.k = Len(call.list)
        next == [call EXCEPT !.all_stations = Append(@, station),
                             !.k = IF last_one THEN 0 ELSE @ + 1,
                             !.list = IF last_one THEN <<>> ELSE @,
                             !.b = IF last_one THEN @ + 1 ELSE @,
                             !.pc = IF last_one THEN "services" ELSE "stations"]
    IN /\ call.pc = "stations"
       /\ IF remapped.ok
          THEN /\ station_id_service_map' =
                     MapInsert(station_id_service_map, station.id, call.b)
               /\ inflight' = [SetCall(p, next) EXCEPT
                                  !.writer = MapInsert(inflight.writer, station.id, p)]
               /\ UNCHANGED response
          ELSE /\ inflight' = [SetCall(p, IdleCall) EXCEPT
                                  !.writer = Settle(inflight.writer, p)]
               /\ response' = Panic
               /\ UNCHANGED station_id_service_map
       /\ UNCHANGED <<config, backend_stations, station_scan, relayVars>>

\* stations() returns the merged list; a station_stream_uri goes on to its
\* lookup
StationsReturn(p) ==
    LET call == inflight.calls[p]
    IN /\ call.pc = "services"
       /\ call.b > NumBackends
       /\ inflight' = [SetCall(p, IF call.kind = "station_stream_uri"
                                  THEN [call EXCEPT !.pc = "lookup"]
                                  ELSE IdleCall)
                       EXCEPT !.writer = Settle(inflight.writer, p)]
       /\ response' = IF call.kind = "station_stream_uri" THEN response
                      ELSE [kind |-> "epg", stations |-> call.all_stations]
       /\ UNCHANGED <<config, backend_stations, station_id_service_map, station_scan,
                      relayVars>>

\* station_stream_uri: lock the route table, get(id), delegate or NotFound;
\* `observed` keeps who wrote each entry of the table the lookup read
Lookup(p, outcome) ==
    LET call == inflight.calls[p]
        service == LookupService(station_id_service_map, call.id)
        result == IF service.some THEN BackendStreamUri(service.v, call.id, outcome)
                  ELSE NotFound
    IN /\ call.pc = "lookup"
       /\ inflight' = SetCall(p, [IdleCall EXCEPT !.observed = inflight.writer,
                                                  !.result = Some(result)])
       /\ response' = [kind |-> "station_stream_uri", id |-> call.id,
                       stations |-> call.all_stations, result |-> result]
       /\ UNCHANGED <<config, backend_stations, station_id_service_map, station_scan,
                      relayVars>>

ConcInit ==
    /\ config \in { cfg \in Configs : ~cfg.remap }
    /\ backend_stations \in CatalogChoices
    /\ station_id_service_map = EmptyMap
    /\ response = NoResponse
    /\ station_scan = FALSE
    /\ inflight = NoCalls
    /\ RelayIdle

ConcNext ==
    \/ BackendUpdate(1, <<>>)
    \/ \E p \in Callers : CallBegin(p, "stations", <<>>)
    \/ \E p \in Callers : \E id \in ConcIds : CallBegin(p, "station_stream_uri", id)
    \/ \E p \in Callers : ServiceStations(p)
    \/ \E p \in Callers : StationStep(p)
    \/ \E p \in Callers : StationsReturn(p)
    \/ \E p \in Callers : Lookup(p, "Ok")

\* two request handlers over one Multiplexer, interleaved wherever the code
\* awaits, while the first backend may lose its stations
ConcSpec == ConcInit /\ [][ConcNext]_vars

\* C16: the rebuild of the route table by one refresh is atomic: no table
\* holds entries written by two different refreshes that are both still
\* under way, and a lookup reads a table that holds no entry of a refresh
\* still under way (the table of the last refresh to return, or of the one
\* before).
C16_RebuildAtomic ==
    /\ \A id1, id2 \in DOMAIN inflight.writer :
          (inflight.writer[id1] \in Callers /\ inflight.writer[id2] \in Callers)
          => inflight.writer[id1] = inflight.writer[id2]
    /\ \A p \in Callers :
          \A id \in DOMAIN inflight.calls[p].observed :
             inflight.calls[p].observed[id] = "done"

\* ------------------------------------------------------------------------
\* Properties of the relay: expiry, failures, accounting, pacing
\* ------------------------------------------------------------------------

\* a step of the relay is a pull
IsPull == pulls' = pulls + 1

C17_Step ==
    IsPull
    => LET due == state.count_down <= 0
           in == last'.input
       IN /\ last'.obs.resolved <=> due
          /\ (due /\ in.resolve.some)
             => /\ state'.url = in.resolve.v
                /\ state'.count_down =
                      CountDown - (IF last'.chunk.some THEN last'.obs.duration ELSE 0)
          /\ (due /\ ~in.resolve.some)
             => /\ status' = "terminated"
                /\ ~last'.obs.fetched
          /\ ~due => state'.url = state.url

\* C17: a pull that starts with the countdown <= 0 (exactly 0 included) asks
\* for a fresh upstream URI before it fetches the playlist; on success it
\* stores the URL and resets the countdown to 9900 seconds, on failure it
\* terminates; with the countdown > 0 it asks for nothing and keeps the URL.
C17_ResolveWhenDue == [][C17_Step]_vars

C18_Step ==
    /\ status = "terminated" => UNCHANGED relayVars
    /\ IsPull
       => LET in == last'.input
              obs == last'.obs
              post == state'.segments
              failed_resolution == obs.resolved /\ ~in.resolve.some
              fetch_failed == ~failed_resolution /\ in.playlist.kind = "fetch_error"
              parse_failed == ~failed_resolution /\ in.playlist.kind = "parse_error"
              none_unplayed ==
                  /\ obs.parsed
                  /\ \A k \in 1..Len(post) :
                        post[k].played /\ last'.chunk # Some(post[k].url)
              segment_failed == obs.paced /\ ~in.segment_ok
          IN IF \/ failed_resolution
                \/ fetch_failed
                \/ parse_failed
                \/ none_unplayed
                \/ segment_failed
             THEN /\ status' = "terminated"
                  /\ ~last'.chunk.some
                  /\ emitted' = emitted
             ELSE /\ status' = "active"
                  /\ last'.chunk.some
                  /\ emitted' = Append(emitted, last'.chunk.v)

\* C18: every soft failure of the relay (a failed re-resolution of an
\* expired URL, a playlist fetch or parse failure, no unplayed segment in the
\* queue, a segment fetch failure) terminates the relay without a chunk on
\* that pull, and a terminated relay stays so: no later pull, chunk or fetch.
C18_SoftFailureTerminates == [][C18_Step]_vars

C18_Witness ==
    /\ status = "terminated"
    /\ last.kind = "pull"
    /\ last.obs.paced
    /\ ~last.input.segment_ok
    /\ Len(emitted) >= 1

\* seconds_served and the countdown as the seconds yielded account for them
Accounted(st, served) ==
    /\ st.seconds_served = served.total
    /\ st.count_down = CountDown - served.on_url

C19_Step ==
    /\ Accounted(state, ledger)
    /\ Accounted(state', ledger')
    /\ pulls = 0 => state.segments = <<>> /\ state.seconds_served = 0
                    /\ state.count_down = CountDown
    /\ (IsPull /\ ~last'.chunk.some) => state'.seconds_served = state.seconds_served
    /\ (IsPull /\ last'.chunk.some)
       => \A played_before \in { { state.segments[k].url : k \in
                                     { j \in 1..Len(state.segments) :
                                          state.segments[j].played } } } :
             LET post == state'.segments
                 armed == IF last'.obs.resolved THEN CountDown ELSE state.count_down
             IN \E i \in 1..Len(post) :
                   /\ post[i].url = last'.chunk.v
                   /\ post[i].played
                   /\ post[i].url \notin played_before
                   /\ \A j \in 1..Len(post) :
                         /\ j < i => post[j].played
                         /\ (j # i /\ post[j].played) => post[j].url \in played_before
                   /\ state'.seconds_served = state.seconds_served + post[i].duration
                   /\ state'.count_down = armed - post[i].duration

\* C19: a fresh relay has an empty queue, seconds_served = 0 and countdown
\* 9900; a successful pull marks exactly one segment played, the first
\* unplayed in queue order, adds its duration to seconds_served and takes it
\* off the countdown; so seconds_served is always the total duration of the
\* chunks yielded and the countdown 9900 less the duration yielded since the
\* URL was last resolved.
C19_Accounting == [][C19_Step]_vars

C19_Witness ==
    /\ last.kind = "pull"
    /\ last.obs.resolved
    /\ last.chunk.some
    /\ ledger.on_url > 0
    /\ ledger.total > ledger.on_url

\* C20: on a pull with seconds_served > 0 the wait is seconds_served -
\* 0.5 * duration - elapsed, and the relay suspends for the wait exactly when
\* it is > 0; so when the segment is fetched the media served leads the wall
\* clock by no more than half the segment's duration.
C20_Pacing ==
    (last.kind = "pull" /\ last.obs.paced /\ last.obs.seconds_before > 0)
    => LET served_ms == 1000 * last.obs.seconds_before
           half_ms == 500 * last.obs.duration
           elapsed_ms == last.input.elapsed_ms
       IN /\ last.obs.wait_ms = served_ms - half_ms - elapsed_ms
          /\ last.obs.slept <=> last.obs.wait_ms > 0
          /\ last.obs.sleep_ms = (IF last.obs.wait_ms > 0 THEN last.obs.wait_ms ELSE 0)
          /\ served_ms - (elapsed_ms + last.obs.sleep_ms) <= half_ms

C20_Witness ==
    /\ last.kind = "pull"
    /\ last.obs.paced
    /\ last.obs.seconds_before > 0
    /\ last.obs.slept
    /\ last.obs.sleep_ms = 1000
    /\ last.chunk.some

\* C24: within one relay stream no segment URL is emitted as a chunk more
\* than once, whatever playlists the upstream answers with, those that still
\* list segments already played and dropped from the queue included.
C24_NoReplay ==
    Cardinality({ emitted[k] : k \in 1..Len(emitted) }) = Len(emitted)

C25_Step ==
    (IsPull /\ last'.obs.drained)
    => LET dropped == last'.obs.appended - last'.obs.queued
       IN /\ dropped <= Len(state.segments)
          /\ \A k \in 1..dropped :
                k <= Len(state.segments) => state.segments[k].played

\* C25: the drain step only ever drops segments that have been played: the
\* entries it takes off the front of the queue were all queued before the
\* pull and played, so that no appended segment leaves the queue unemitted.
C25_DrainOnlyPlayed == [][C25_Step]_vars

\* ------------------------------------------------------------------------
\* Several watch connections on one server
\* ------------------------------------------------------------------------

\* the ids the clients of the connections ask for
ConnIds == { StationId(1, 1), UnknownId }

\* what the upstream of a connection may list: a short live window, and
\* segments long enough to use up the countdown
ConnPlaylists ==
    { Window(1, 3),
      <<MediaSegment(61, 4950), MediaSegment(62, 4950), MediaSegment(63, 4950)>> }

\* OwnedBy with one StreamState behind all the connections
OwnedByAll(all, c, conn) == [d \in DOMAIN all |-> conn]

\* stream::unfold(state, |mut state| async move { .. }): the StreamState is
\* moved into the stream of its own connection, and handed back to it alone
OwnedBy(all, c, conn) == [all EXCEPT ![c] = conn]

\* GET /watch/{id} on connection c: resolve the id through the Multiplexer
\* all connections share, and on success build the connection's StreamState
ConnOpen(c, id, outcome) ==
    LET r == Stations(config, backend_stations, station_id_service_map)
        result == StreamUriResult(r, id, outcome)
        http == WatchResponse(result)
    IN /\ conns[c].status = "idle"
       /\ station_id_service_map' = r.map
       /\ response' = IF r.panicked THEN Panic
                      ELSE [kind |-> "watch", id |-> id, result |-> result,
                            http |-> http]
       /\ conns' = IF ~r.panicked /\ http.status = "stream"
                   THEN OwnedBy(conns, c, [id |-> id, status |-> "active", pulls |-> 0,
                                           state |-> FreshState(http.url)])
                   ELSE conns
       /\ UNCHANGED <<config, backend_stations, station_scan, inflight,
                      state, status, emitted, pulls, last, ledger, feed>>

\* the response writer of connection c asks for the next chunk: one run of
\* the closure on the connection's own StreamState. A pull on an expired URL
\* asks the shared Multiplexer for a new one, which refreshes the route table
ConnPull(c, outcome, answer, segment_ok) ==
    LET conn == conns[c]
        expired == UrlExpired(conn.state)
        r == Stations(config, backend_stations, station_id_service_map)
        result == StreamUriResult(r, conn.id, outcome)
        resolve == IF expired /\ ~r.panicked /\ result.outcome = "Ok"
                   THEN Some(StreamUrl(result))
                   ELSE None
        in == [resolve |-> resolve, playlist |-> answer, elapsed_ms |-> 0,
               segment_ok |-> segment_ok]
    IN /\ conn.status = "active"
       /\ conn.pulls < MaxPulls
       /\ station_id_service_map' = IF expired THEN r.map ELSE station_id_service_map
       /\ \E pr \in {PullResult(conn.state, in)} :
             conns' = OwnedBy(conns, c,
                              [conn EXCEPT !.state = pr.state,
                                           !.status = IF pr.ended THEN "terminated"
                                                      ELSE "active",
                                           !.pulls = @ + 1])
       /\ UNCHANGED <<config, backend_stations, response, station_scan, inflight,
                      state, status, emitted, pulls, last, ledger, feed>>

ConnInit ==
    /\ config = [remap |-> FALSE, remap_file |-> FALSE]
    /\ backend_stations = [b \in Backends |-> <<PoolStation(b, 1), PoolStation(b, 2)>>]
    /\ station_id_service_map = EmptyMap
    /\ response = NoResponse
    /\ station_scan = FALSE
    /\ inflight = NoCalls
    /\ RelayIdle

ConnNext ==
    \/ \E c \in Conns : \E id \in ConnIds : \E outcome \in {"Ok", "Err"} :
          ConnOpen(c, id, outcome)
    \/ \E c \in Conns : \E outcome \in {"Ok", "Err"} :
       \E answer \in {FetchError, ParseError} \cup {Fetched(p) : p \in ConnPlaylists} :
       \E segment_ok \in BOOLEAN :
          ConnPull(c, outcome, answer, segment_ok)

\* one server with several watch connections open, their pulls interleaved
ConnSpec == ConnInit /\ [][ConnNext]_vars

C23_Step ==
    \A c \in Conns :
       conns'[c] # conns[c]
       => \A d \in Conns \ {c} : conns'[d] = conns[d]

\* C23: relay streams are isolated: whatever one connection does in a step
\* (it is opened, it pulls a chunk, it fails, it terminates), the state of
\* every other connection (queue, URL, seconds_served, countdown, active or
\* terminated) is left as it was, under every interleaving of the pulls.
C23_RelaysIsolated == [][C23_Step]_vars

C23_Witness ==
    /\ conns["x"].status = "terminated"
    /\ conns["x"].pulls >= 2
    /\ conns["y"].status = "active"
    /\ conns["y"].id = conns["x"].id
    /\ conns["y"].state.seconds_served > 0
    /\ conns["y"].state.url = conns["x"].state.url
    /\ conns["y"].state.segments # conns["x"].state.segments

====
